---- MODULE Spec2Model ----
(***************************************************************************)
(* Model of the external-data aggregation layer of the tour application:   *)
(*   - RequestExecutor   (fetchApiResponse / retryRequest, tour-api.ts)    *)
(*   - ResponseNormalizer (normalizeItems, tour-api.ts)                    *)
(*   - CoordinateResolver (convertKATECToWGS84, coordinate.ts)             *)
(* Each component has its own variables and its own specification; the     *)
(* actions of one component leave the variables of the others unchanged.   *)
(***************************************************************************)
EXTENDS Integers, Sequences, FiniteSets, TLC

VARIABLES
    pc,          \* position of the one fetchApiResponse call
    hasKey,      \* whether an API key is configured in the environment
    timeout,     \* the call's timeout argument (ms)
    attempt,     \* retryRequest's loop variable
    timerArmed,  \* the attempt's abort timer is set and not cleared
    lastError,   \* retryRequest's lastError
    events,      \* how each attempt ended, in order
    waited,      \* the backoff delays slept so far, in order (ms)
    result,      \* the envelope returned to the caller
    thrown,      \* the error thrown to the caller
    nIn,         \* normalizeItems: the argument
    nOut,        \* normalizeItems: outcome of normalizeItems(nIn)
    nOut2,       \* normalizeItems: outcome of normalizeItems applied to nOut
    npc,         \* normalizeItems: position of the caller
    cx,          \* convertKATECToWGS84: mapx as typed by the upstream
    cy,          \* convertKATECToWGS84: mapy
    cres,        \* convertKATECToWGS84: outcome of the last call
    cpc,         \* convertKATECToWGS84: position of the caller
    cInRange,    \* the caller's test that the coordinate lies in Korea
    coordConvertCount,  \* globalThis.__coordConvertCount
    dpc,         \* TourDetailData: position (which fetch is awaited, or the end)
    dId,         \* TourDetailData: the contentId argument
    dGot,        \* TourDetailData: what each fetch settled with
    dIssued,     \* TourDetailData: the fetches issued so far, in order
    dDetail,     \* TourDetailData: detail
    dIntro,      \* TourDetailData: intro
    dImages,     \* TourDetailData: images
    dPet,        \* TourDetailData: petInfo
    dRecs,       \* TourDetailData: recommendations
    dCaught,     \* TourDetailData: the error its catch block received
    dThrown,     \* TourDetailData: the error thrown to its caller
    spc,         \* stats: position of the aggregator call
    sKind,       \* stats: "region" (getRegionStats) or "type" (getTypeStats)
    sParts,      \* stats: the partitions queried (areas / content types)
    sIssued,     \* stats: the getAreaBasedList calls issued, in order
    sSettled,    \* stats: what each partition query settled with
    sResult,     \* stats: the array the aggregator returned
    sThrown,     \* stats: the error the aggregator threw
    sSummary,    \* stats: what getStatsSummary returned
    sCache,      \* stats: the entries of unstable_cache, by kind
    sCalls,      \* stats: the getRegionStats / getTypeStats calls made
    sApiCalls,   \* stats: getAreaCode / getAreaBasedList calls issued
    fpc,         \* fetcher: "idle", "awaiting", "returned" or "threw"
    fName,       \* fetcher: the function called
    fParams,     \* fetcher: its params
    fApiCalls,   \* fetcher: calls of fetchApiResponse it made
    fBody,       \* fetcher: response.response.body it received
    fRejected,   \* fetcher: the error fetchApiResponse rejected with
    fResult,     \* fetcher: the value returned
    fThrown      \* fetcher: the error thrown

execVars  == <<pc, hasKey, timeout, attempt, timerArmed, lastError, events,
               waited, result, thrown>>
normVars  == <<nIn, nOut, nOut2, npc>>
coordVars == <<cx, cy, cres, cpc, cInRange, coordConvertCount>>
detailVars == <<dpc, dId, dGot, dIssued, dDetail, dIntro, dImages, dPet,
                dRecs, dCaught, dThrown>>
statsVars == <<spc, sKind, sParts, sIssued, sSettled, sResult, sThrown, sSummary,
               sCache, sCalls, sApiCalls>>
fetchVars == <<fpc, fName, fParams, fApiCalls, fBody, fRejected, fResult, fThrown>>
vars      == <<execVars, normVars, coordVars, detailVars, statsVars, fetchVars>>

(***************************************************************************)
(* RequestExecutor                                                         *)
(***************************************************************************)

REQUEST_TIMEOUT == 10000
MAX_RETRIES     == 3
RETRY_DELAYS    == <<1000, 2000, 4000>>
rateLimitDelays == <<5000, 10000, 15000>>
StatsTimeout    == 20000

\* A field that is undefined in the JavaScript object.
Absent   == "absent"
NoStatus == -1

\* HTTP status codes the upstream answers with.
Statuses == {200, 400, 404, 429, 500, 503}

\* response.ok
ResponseOk(status) == status >= 200 /\ status <= 299

\* The value response.json() resolves to.  shape: JSON null, a falsy
\* primitive, a truthy primitive, an array or an object; for an object the
\* members the code looks at: top-level resultCode/resultMsg, response,
\* response.header.resultCode/resultMsg, response.body.
NoData ==
    [shape |-> "none", topCode |-> Absent, topMsg |-> Absent,
     response |-> Absent, code |-> Absent, msg |-> Absent, body |-> Absent]

NonObjectData ==
    { [NoData EXCEPT !.shape = s] : s \in {"null", "falsy", "prim", "array"} }

ObjectData ==
    { d \in [shape : {"object"}, topCode : {Absent, "22"},
             topMsg : {Absent, "LIMITED"},
             response : {Absent, "null", "obj"},
             code : {Absent, "", "0000", "0003"},
             msg : {Absent, "NODATA"},
             body : {Absent, "obj"}] :
        /\ (d.topCode = Absent => d.topMsg = Absent)
        /\ (d.response # "obj" =>
                d.code = Absent /\ d.msg = Absent /\ d.body = Absent)
        /\ (d.code = Absent => d.msg = Absent) }

Envelopes == NonObjectData \cup ObjectData

\* Errors.  name is the class of the JavaScript error; kind tells the
\* message template of a TourApiError.
MkError(name, status, kind, m, c) ==
    [name |-> name, statusCode |-> status, kind |-> kind,
     provMsg |-> m, provCode |-> c]

NoError == MkError("none", NoStatus, "none", Absent, Absent)

TourApiError(status, kind, m, c) == MkError("TourApiError", status, kind, m, c)

\* x || fallback on strings: undefined and "" are falsy
OrElse(x, fallback) == IF x = Absent \/ x = "" THEN fallback ELSE x

\* 500 itself is not taken as a server error
isRetryableError_Above500(error) ==
    IF error.name = "TourApiError"
    THEN IF error.statusCode = 429 THEN TRUE
         ELSE IF error.statusCode # NoStatus /\ error.statusCode # 0
                 /\ error.statusCode > 500 THEN TRUE
         ELSE FALSE
    ELSE TRUE

\* every error status is taken as retryable
isRetryableError_From400(error) ==
    IF error.name = "TourApiError"
    THEN IF error.statusCode # NoStatus /\ error.statusCode # 0
            /\ error.statusCode >= 400 THEN TRUE
         ELSE FALSE
    ELSE TRUE

isRetryableError(error) ==
    IF error.name = "TourApiError"
    THEN IF error.statusCode = 429 THEN TRUE
         ELSE IF error.statusCode # NoStatus /\ error.statusCode # 0
                 /\ error.statusCode >= 500 THEN TRUE
         ELSE FALSE
    ELSE TRUE

handleApiError(error) ==
    IF error.name = "TourApiError" THEN error
    ELSE IF error.name \in {"TypeError", "AbortError", "SyntaxError"}
         THEN TourApiError(NoStatus, "wrapped", Absent, Absent)
    ELSE TourApiError(NoStatus, "unknown", Absent, Absent)

\* delays[attempt] || delays[delays.length - 1], attempt counted from 0
DelayAt(delays, att) ==
    IF att + 1 \in DOMAIN delays /\ delays[att + 1] # 0
    THEN delays[att + 1]
    ELSE delays[Len(delays)]

\* the rate-limit delays are never used
RetryDelay_NoRateLimit(error, att) == DelayAt(RETRY_DELAYS, att)

\* the delay retryRequest sleeps after a retryable failure of attempt att
RetryDelay(error, att) ==
    IF error.name = "TourApiError" /\ error.statusCode = 429
    THEN DelayAt(rateLimitDelays, att)
    ELSE DelayAt(RETRY_DELAYS, att)

\* the top-level error check is missing
ValidateEnvelope_NoTopLevel(data) ==
    IF data.shape \in {"null", "falsy"}
    THEN [ok |-> FALSE,
          exc |-> TourApiError(NoStatus, "invalidStructure", Absent, Absent)]
    ELSE IF data.shape = "prim"
    THEN [ok |-> FALSE, exc |-> MkError("TypeError", NoStatus, "in", Absent, Absent)]
    ELSE IF data.response # "obj"
    THEN [ok |-> FALSE,
          exc |-> TourApiError(NoStatus, "invalidStructure", Absent, Absent)]
    ELSE IF data.code # Absent /\ data.code # "" /\ data.code # "0000"
    THEN [ok |-> FALSE,
          exc |-> TourApiError(NoStatus, "apiResponseError",
                               OrElse(data.msg, "unknown"), data.code)]
    ELSE [ok |-> TRUE, exc |-> NoError]

\* the header check is resultCode !== "0000", which rejects a missing code
ValidateEnvelope_Strict(data) ==
    IF data.shape = "object" /\ data.topCode # Absent /\ data.response = Absent
    THEN [ok |-> FALSE,
          exc |-> TourApiError(NoStatus, "apiResponseError",
                               OrElse(data.topMsg, "unknown"), data.topCode)]
    ELSE IF data.shape \in {"null", "falsy"}
    THEN [ok |-> FALSE,
          exc |-> TourApiError(NoStatus, "invalidStructure", Absent, Absent)]
    ELSE IF data.shape = "prim"
    THEN [ok |-> FALSE, exc |-> MkError("TypeError", NoStatus, "in", Absent, Absent)]
    ELSE IF data.response # "obj"
    THEN [ok |-> FALSE,
          exc |-> TourApiError(NoStatus, "invalidStructure", Absent, Absent)]
    ELSE IF data.code # "0000"
    THEN [ok |-> FALSE,
          exc |-> TourApiError(NoStatus, "apiResponseError",
                               OrElse(data.msg, "unknown"), data.code)]
    ELSE [ok |-> TRUE, exc |-> NoError]

\* The checks fetchApiResponse makes on the parsed body.  The outcome is
\* [ok |-> TRUE] or the exception thrown inside the try block.
ValidateEnvelope(data) ==
    IF data.shape = "object" /\ data.topCode # Absent /\ data.response = Absent
    THEN [ok |-> FALSE,
          exc |-> TourApiError(NoStatus, "apiResponseError",
                               OrElse(data.topMsg, "unknown"), data.topCode)]
    ELSE IF data.shape \in {"null", "falsy"}
    THEN [ok |-> FALSE,
          exc |-> TourApiError(NoStatus, "invalidStructure", Absent, Absent)]
    ELSE IF data.shape = "prim"
    THEN \* "response" in data: the in operator throws on a primitive
         [ok |-> FALSE, exc |-> MkError("TypeError", NoStatus, "in", Absent, Absent)]
    ELSE IF data.response # "obj"
    THEN [ok |-> FALSE,
          exc |-> TourApiError(NoStatus, "invalidStructure", Absent, Absent)]
    ELSE IF data.code # Absent /\ data.code # "" /\ data.code # "0000"
    THEN [ok |-> FALSE,
          exc |-> TourApiError(NoStatus, "apiResponseError",
                               OrElse(data.msg, "unknown"), data.code)]
    ELSE [ok |-> TRUE, exc |-> NoError]

\* The catch block of one attempt: what the attempt rejects with.
AttemptCatch(exc) ==
    IF exc.name = "TourApiError" THEN exc
    ELSE IF exc.name = "AbortError"
    THEN TourApiError(NoStatus, "timeout", Absent, Absent)
    ELSE handleApiError(exc)

\* How an attempt ended.
Event(ev, status, data) == [ev |-> ev, status |-> status, data |-> data]

ExecDone == pc \in {"returned", "failed"}

\* variant: every failed attempt is retried while retries are left
AttemptFailed_RetryAll(error, event) ==
    /\ events' = Append(events, event)
    /\ lastError' = error
    /\ timerArmed' = FALSE
    /\ IF attempt >= MAX_RETRIES
       THEN /\ pc' = "failed"
            /\ thrown' = handleApiError(error)
            /\ UNCHANGED waited
       ELSE /\ pc' = "sleeping"
            /\ waited' = Append(waited, RetryDelay(error, attempt))
            /\ UNCHANGED thrown
    /\ UNCHANGED <<hasKey, timeout, attempt, result>>
    /\ UNCHANGED <<normVars, coordVars, detailVars, statsVars, fetchVars>>

\* retryRequest's catch block for the attempt that rejected with error
AttemptFailed(error, event) ==
    /\ events' = Append(events, event)
    /\ lastError' = error
    /\ timerArmed' = FALSE
    /\ IF ~isRetryableError(error)
       THEN /\ pc' = "failed"
            /\ thrown' = handleApiError(error)
            /\ UNCHANGED waited
       ELSE IF attempt >= MAX_RETRIES
       THEN /\ pc' = "failed"
            /\ thrown' = handleApiError(error)
            /\ UNCHANGED waited
       ELSE /\ pc' = "sleeping"
            /\ waited' = Append(waited, RetryDelay(error, attempt))
            /\ UNCHANGED thrown
    /\ UNCHANGED <<hasKey, timeout, attempt, result>>
    /\ UNCHANGED <<normVars, coordVars, detailVars, statsVars, fetchVars>>

\* fetchApiResponse(endpoint, params, t): build the URL, start attempt 0
Execute(t) ==
    /\ pc = "idle"
    /\ timeout' = t
    /\ IF ~hasKey
       THEN /\ pc' = "failed"
            /\ thrown' = TourApiError(NoStatus, "noApiKey", Absent, Absent)
            /\ UNCHANGED timerArmed
       ELSE /\ pc' = "fetching"
            /\ timerArmed' = TRUE
            /\ UNCHANGED thrown
    /\ UNCHANGED <<hasKey, attempt, lastError, events, waited, result>>
    /\ UNCHANGED <<normVars, coordVars, detailVars, statsVars, fetchVars>>

\* fetch() rejects: a transport failure
FetchRejects ==
    /\ pc = "fetching"
    /\ AttemptFailed(AttemptCatch(MkError("TypeError", NoStatus, "fetch", Absent, Absent)),
                     Event("network", NoStatus, NoData))

\* the abort timer fires while fetch() is pending
TimerFires ==
    /\ pc = "fetching"
    /\ timerArmed
    /\ AttemptFailed(AttemptCatch(MkError("AbortError", NoStatus, "abort", Absent, Absent)),
                     Event("timeout", NoStatus, NoData))

\* fetch() resolves with the response headers; the timer is cleared
FetchResponds(status) ==
    /\ pc = "fetching"
    /\ IF ~ResponseOk(status)
       THEN AttemptFailed(AttemptCatch(TourApiError(status, "http", Absent, Absent)),
                          Event("http", status, NoData))
       ELSE /\ pc' = "reading"
            /\ timerArmed' = FALSE
            /\ UNCHANGED <<hasKey, timeout, attempt, lastError, events,
                           waited, result, thrown>>
            /\ UNCHANGED <<normVars, coordVars, detailVars, statsVars, fetchVars>>

\* response.json() resolves with the parsed body, which is then validated
BodyArrives(data) ==
    /\ pc = "reading"
    /\ LET v == ValidateEnvelope(data) IN
       IF v.ok
       THEN /\ pc' = "returned"
            /\ result' = data
            /\ events' = Append(events, Event("json", 200, data))
            /\ UNCHANGED <<hasKey, timeout, attempt, timerArmed, lastError,
                           waited, thrown>>
            /\ UNCHANGED <<normVars, coordVars, detailVars, statsVars, fetchVars>>
       ELSE AttemptFailed(AttemptCatch(v.exc), Event("json", 200, data))

\* response.json() rejects: the body is not JSON
BodyInvalid ==
    /\ pc = "reading"
    /\ AttemptFailed(AttemptCatch(MkError("SyntaxError", NoStatus, "json", Absent, Absent)),
                     Event("badjson", 200, NoData))

\* the backoff delay is over: the loop starts the next attempt
Wake ==
    /\ pc = "sleeping"
    /\ attempt' = attempt + 1
    /\ pc' = "fetching"
    /\ timerArmed' = TRUE
    /\ UNCHANGED <<hasKey, timeout, lastError, events, waited, result, thrown>>
    /\ UNCHANGED <<normVars, coordVars, detailVars, statsVars, fetchVars>>

ExecInit ==
    /\ pc = "idle"
    /\ hasKey \in BOOLEAN
    /\ timeout = REQUEST_TIMEOUT
    /\ attempt = 0
    /\ timerArmed = FALSE
    /\ lastError = NoError
    /\ events = <<>>
    /\ waited = <<>>
    /\ result = NoData
    /\ thrown = NoError

(***************************************************************************)
(* ResponseNormalizer                                                      *)
(***************************************************************************)

MaxArrayLen == 2

\* A JavaScript value: k is its kind, p the primitive (or the identity of a
\* plain object), elems the elements of an array, item the value of the
\* property "item" of an object (<<>> when the object has no such property).
JS(k, p, elems, item) == [k |-> k, p |-> p, elems |-> elems, item |-> item]

JSNull      == JS("null", "", <<>>, <<>>)
JSUndefined == JS("undefined", "", <<>>, <<>>)
JSString(p) == JS("string", p, <<>>, <<>>)
JSNumber(p) == JS("number", p, <<>>, <<>>)
JSBool(p)   == JS("boolean", p, <<>>, <<>>)
JSObject(p) == JS("object", p, <<>>, <<>>)
JSArray(elems) == JS("array", "", elems, <<>>)
JSWrapper(v)   == JS("object", "", <<>>, <<v>>)

\* !!v
Truthy(v) ==
    CASE v.k \in {"null", "undefined"} -> FALSE
      [] v.k = "string"  -> v.p # ""
      [] v.k = "number"  -> v.p \notin {"0", "NaN"}
      [] v.k = "boolean" -> v.p = "true"
      [] OTHER -> TRUE

\* typeof v
TypeOf(v) ==
    CASE v.k \in {"null", "array", "object"} -> "object"
      [] OTHER -> v.k

IsArray(v) == v.k = "array"

\* "item" in v: throws a TypeError when v is not an object
InItem(v) ==
    IF TypeOf(v) # "object" \/ v.k = "null" THEN "throws"
    ELSE IF v.k = "object" /\ v.item # <<>> THEN "true"
    ELSE "false"

Returned(arr) == [threw |-> FALSE, val |-> arr]
Threw         == [threw |-> TRUE, val |-> JSUndefined]

\* an array is wrapped like a single item
normalizeItems_WrapArray(items) ==
    IF ~Truthy(items) THEN Returned(JSArray(<<>>))
    ELSE LET hasItem == IF TypeOf(items) = "object" /\ items.k # "null"
                        THEN InItem(items) ELSE "false"
         IN  IF hasItem = "throws" THEN Threw
             ELSE IF hasItem = "true"
             THEN LET innerItems == items.item[1] IN
                  IF innerItems.k \in {"null", "undefined"}
                  THEN Returned(JSArray(<<>>))
                  ELSE IF IsArray(innerItems) THEN Returned(innerItems)
                  ELSE Returned(JSArray(<<innerItems>>))
             ELSE Returned(JSArray(<<items>>))

\* the typeof guard before the in operator is missing
normalizeItems_NoTypeGuard(items) ==
    IF ~Truthy(items) THEN Returned(JSArray(<<>>))
    ELSE LET hasItem == InItem(items)
         IN  IF hasItem = "throws" THEN Threw
             ELSE IF hasItem = "true"
             THEN LET innerItems == items.item[1] IN
                  IF innerItems.k \in {"null", "undefined"}
                  THEN Returned(JSArray(<<>>))
                  ELSE IF IsArray(innerItems) THEN Returned(innerItems)
                  ELSE Returned(JSArray(<<innerItems>>))
             ELSE IF IsArray(items) THEN Returned(items)
             ELSE Returned(JSArray(<<items>>))

normalizeItems(items) ==
    IF ~Truthy(items) THEN Returned(JSArray(<<>>))
    ELSE LET hasItem == IF TypeOf(items) = "object" /\ items.k # "null"
                        THEN InItem(items) ELSE "false"
         IN  IF hasItem = "throws" THEN Threw
             ELSE IF hasItem = "true"
             THEN LET innerItems == items.item[1] IN
                  IF innerItems.k \in {"null", "undefined"}
                  THEN Returned(JSArray(<<>>))
                  ELSE IF IsArray(innerItems) THEN Returned(innerItems)
                  ELSE Returned(JSArray(<<innerItems>>))
             ELSE IF IsArray(items) THEN Returned(items)
             ELSE Returned(JSArray(<<items>>))

\* The values normalizeItems is applied to.
JSPrimitives ==
    {JSString(""), JSString("abc"), JSNumber("0"), JSNumber("5"),
     JSNumber("NaN"), JSBool("false"), JSBool("true")}
JSLeaves == {JSNull, JSUndefined, JSObject("o1"), JSObject("o2")} \cup JSPrimitives
JSElems  == {JSObject("o1"), JSObject("o2"), JSString("abc"), JSNull}
JSArrays ==
    { JSArray(s) : s \in UNION { [1..n -> JSElems] : n \in 0..MaxArrayLen } }
JSWrappers1 == { JSWrapper(v) : v \in JSLeaves \cup JSArrays }
JSWrappers2 == { JSWrapper(w) : w \in JSWrappers1 }
JSValues == JSLeaves \cup JSArrays \cup JSWrappers1 \cup JSWrappers2

NoOutcome == [threw |-> FALSE, val |-> JSUndefined]

NormInit ==
    /\ nIn \in JSValues
    /\ nOut = NoOutcome
    /\ nOut2 = NoOutcome
    /\ npc = "start"

\* const items = normalizeItems(rawItems)
Normalize ==
    /\ npc = "start"
    /\ nOut' = normalizeItems(nIn)
    /\ npc' = "once"
    /\ UNCHANGED <<nIn, nOut2>>
    /\ UNCHANGED <<execVars, coordVars, detailVars, statsVars, fetchVars>>

\* normalizeItems applied to an already normalized list
NormalizeAgain ==
    /\ npc = "once"
    /\ ~nOut.threw
    /\ nOut2' = normalizeItems(nOut.val)
    /\ npc' = "twice"
    /\ UNCHANGED <<nIn, nOut>>
    /\ UNCHANGED <<execVars, coordVars, detailVars, statsVars, fetchVars>>

(***************************************************************************)
(* CoordinateResolver                                                      *)
(***************************************************************************)

MaxStrLen == 1
MaxCalls  == 2

\* A string is a sequence of characters; "Infinity" stands for the eight
\* characters of that word.  Strings carry no exponent part.
DigitChars == <<"0", "1", "2", "3", "4", "5", "6", "7", "8", "9">>
IsDigit(c) == \E i \in 1..10 : DigitChars[i] = c
DigitVal(c) == (CHOOSE i \in 1..10 : DigitChars[i] = c) - 1

\* A number: NaN, +-Infinity (m is the sign) or the decimal m / 10^e, with m
\* not divisible by 10 unless e = 0.  On the inputs of this model (at most 10
\* significant digits) the quotient of an integer by 10000000 and the parse
\* of the decimal literal with the same digits are the same double, so the
\* exact decimal stands for the double.
NaN == [k |-> "nan", m |-> 0, e |-> 0]
Infinity(sign) == [k |-> "inf", m |-> sign, e |-> 0]

RECURSIVE Fin(_, _)
Fin(m, e) ==
    IF e > 0 /\ m % 10 = 0 THEN Fin(m \div 10, e - 1)
    ELSE [k |-> "fin", m |-> m, e |-> e]

RECURSIVE Pow10(_)
Pow10(n) == IF n = 0 THEN 1 ELSE 10 * Pow10(n - 1)

IsNaN(x) == x.k = "nan"
IsZero(x) == x.k = "fin" /\ x.m = 0
Abs(n) == IF n < 0 THEN -n ELSE n

\* Math.abs(x) >= n for an integer n
AbsAtLeast(x, n) ==
    CASE x.k = "nan" -> FALSE
      [] x.k = "inf" -> TRUE
      [] OTHER -> Abs(x.m) \div Pow10(x.e) >= n

\* x / 10000000
DivideBy10000000(x) ==
    IF x.k = "fin" THEN Fin(x.m, x.e + 7) ELSE x

\* String.prototype.trim
RECURSIVE TrimLeft(_)
TrimLeft(s) == IF s # <<>> /\ s[1] = " " THEN TrimLeft(Tail(s)) ELSE s
RECURSIVE TrimRight(_)
TrimRight(s) ==
    IF s # <<>> /\ s[Len(s)] = " " THEN TrimRight(SubSeq(s, 1, Len(s) - 1)) ELSE s
Trim(s) == TrimRight(TrimLeft(s))

\* String.prototype.includes for a one-character needle
Includes(s, c) == \E i \in 1..Len(s) : s[i] = c

\* number of leading digits of s
RECURSIVE DigitPrefixLen(_)
DigitPrefixLen(s) ==
    IF s # <<>> /\ IsDigit(s[1]) THEN 1 + DigitPrefixLen(Tail(s)) ELSE 0

\* value of a sequence of digits
RECURSIVE DigitsToInt(_)
DigitsToInt(s) ==
    IF s = <<>> THEN 0
    ELSE 10 * DigitsToInt(SubSeq(s, 1, Len(s) - 1)) + DigitVal(s[Len(s)])

\* parseFloat: the longest prefix that is a decimal literal, NaN if none
parseFloat(str) ==
    LET t    == TrimLeft(str)
        sign == IF t # <<>> /\ t[1] = "-" THEN -1 ELSE 1
        u    == IF t # <<>> /\ t[1] \in {"-", "+"} THEN Tail(t) ELSE t
    IN  IF u # <<>> /\ u[1] = "Infinity" THEN Infinity(sign)
        ELSE LET ip   == DigitPrefixLen(u)
                 rest == SubSeq(u, ip + 1, Len(u))
                 fp   == IF rest # <<>> /\ rest[1] = "."
                         THEN DigitPrefixLen(Tail(rest)) ELSE 0
                 digs == SubSeq(u, 1, ip) \o SubSeq(rest, 2, fp + 1)
             IN  IF ip + fp = 0 THEN NaN
                 ELSE Fin(sign * DigitsToInt(digs), fp)

\* comparisons of a number with an integer n
NumFloor(x) == x.m \div Pow10(x.e)
NumLT(x, n) ==
    CASE x.k = "nan" -> FALSE
      [] x.k = "inf" -> x.m < 0
      [] OTHER -> NumFloor(x) < n
NumLE(x, n) ==
    CASE x.k = "nan" -> FALSE
      [] x.k = "inf" -> x.m < 0
      [] OTHER -> NumFloor(x) < n \/ (NumFloor(x) = n /\ x.m % Pow10(x.e) = 0)
NumGT(x, n) == ~IsNaN(x) /\ ~NumLE(x, n)
NumGE(x, n) == ~IsNaN(x) /\ ~NumLT(x, n)

CoordOk(lat, lng) == [ok |-> TRUE, err |-> "none", lat |-> lat, lng |-> lng]
CoordThrows(err)  == [ok |-> FALSE, err |-> err, lat |-> NaN, lng |-> NaN]
NoCoord           == [ok |-> FALSE, err |-> "pending", lat |-> NaN, lng |-> NaN]

\* each value is classified on its own
convertKATECToWGS84_PerAxis(mapx, mapy) ==
    LET mapxStr == Trim(mapx)
        mapyStr == Trim(mapy)
        mapxNum == parseFloat(mapxStr)
        mapyNum == parseFloat(mapyStr)
        mapxHasDecimal == Includes(mapxStr, ".") \/ Includes(mapxStr, ",")
        mapyHasDecimal == Includes(mapyStr, ".") \/ Includes(mapyStr, ",")
        lng == IF ~mapxHasDecimal /\ AbsAtLeast(mapxNum, 1000)
               THEN DivideBy10000000(mapxNum) ELSE mapxNum
        lat == IF ~mapyHasDecimal /\ AbsAtLeast(mapyNum, 1000)
               THEN DivideBy10000000(mapyNum) ELSE mapyNum
    IN  IF IsNaN(mapxNum) \/ IsNaN(mapyNum) THEN CoordThrows("invalid")
        ELSE IF IsZero(mapxNum) \/ IsZero(mapyNum) THEN CoordThrows("zero")
        ELSE IF IsNaN(lat) \/ IsNaN(lng) THEN CoordThrows("converted")
        ELSE CoordOk(lat, lng)

convertKATECToWGS84(mapx, mapy) ==
    LET mapxStr == Trim(mapx)
        mapyStr == Trim(mapy)
        mapxNum == parseFloat(mapxStr)
        mapyNum == parseFloat(mapyStr)
        mapxHasDecimal == Includes(mapxStr, ".") \/ Includes(mapxStr, ",")
        mapyHasDecimal == Includes(mapyStr, ".") \/ Includes(mapyStr, ",")
        katec == ~(mapxHasDecimal \/ mapyHasDecimal)
                 /\ (AbsAtLeast(mapxNum, 1000) \/ AbsAtLeast(mapyNum, 1000))
        lng == IF katec THEN DivideBy10000000(mapxNum) ELSE mapxNum
        lat == IF katec THEN DivideBy10000000(mapyNum) ELSE mapyNum
    IN  IF IsNaN(mapxNum) \/ IsNaN(mapyNum) THEN CoordThrows("invalid")
        ELSE IF IsZero(mapxNum) \/ IsZero(mapyNum) THEN CoordThrows("zero")
        ELSE IF IsNaN(lat) \/ IsNaN(lng) THEN CoordThrows("converted")
        ELSE CoordOk(lat, lng)

\* latitude and longitude are taken for each other
isValidKoreanCoordinate_Swapped(lat, lng) ==
    NumGE(lng, 33) /\ NumLE(lng, 43) /\ NumGE(lat, 124) /\ NumLE(lat, 132)

isValidKoreanCoordinate(lat, lng) ==
    NumGE(lat, 33) /\ NumLE(lat, 43) /\ NumGE(lng, 124) /\ NumLE(lng, 132)

\* The strings the resolver is applied to.
SmallAlphabet == {"1", "0", ".", "-"}
SmallStrings ==
    UNION { [1..n -> SmallAlphabet] : n \in 0..MaxStrLen }
NamedStrings ==
    { <<"1","2","7","1","2","3","4","5","6","7">>,
      <<"3","7","1","2","3","4","5","6","7">>,
      <<"1","2","7",".","1","2","3","4","5","6","7">>,
      <<"3","7",".","1","2","3","4","5","6","7">>,
      <<"a","b","c">>,
      <<"3","7",".","0">>,
      <<"1","2","7">>,
      <<"3","7">>,
      <<"9","9","9">>,
      <<"1","0","0","0">>,
      <<"-","1","0","0","0">>,
      <<"1","2","7",",","5">>,
      <<" ","3","7",".","5"," ">>,
      <<"3","7","a">>,
      <<"3","3">>,
      <<"1","3","2">>,
      <<"Infinity">> }
CoordStrings == NamedStrings \cup SmallStrings

CoordInit ==
    /\ cx \in CoordStrings
    /\ cy \in CoordStrings
    /\ cres = NoCoord
    /\ cpc = "ready"
    /\ cInRange = "unset"
    /\ coordConvertCount = 0

\* variant: the counter is advanced only by a call that passes validation
Convert_CountValidOnly ==
    /\ cpc = "ready"
    /\ coordConvertCount < MaxCalls
    /\ cres' = convertKATECToWGS84(cx, cy)
    /\ coordConvertCount' = IF cres'.ok THEN coordConvertCount + 1 ELSE coordConvertCount
    /\ cInRange' = IF ~cres'.ok THEN "unset"
                   ELSE IF isValidKoreanCoordinate(cres'.lat, cres'.lng)
                   THEN "true" ELSE "false"
    /\ cpc' = "called"
    /\ UNCHANGED <<cx, cy>>
    /\ UNCHANGED <<execVars, normVars, detailVars, statsVars, fetchVars>>

\* one call convertKATECToWGS84(cx, cy), followed by the caller's test of the
\* returned coordinate against the Korean bounding box
Convert ==
    /\ cpc = "ready"
    /\ coordConvertCount < MaxCalls
    /\ coordConvertCount' = coordConvertCount + 1
    /\ cres' = convertKATECToWGS84(cx, cy)
    /\ cInRange' = IF ~cres'.ok THEN "unset"
                   ELSE IF isValidKoreanCoordinate(cres'.lat, cres'.lng)
                   THEN "true" ELSE "false"
    /\ cpc' = "called"
    /\ UNCHANGED <<cx, cy>>
    /\ UNCHANGED <<execVars, normVars, detailVars, statsVars, fetchVars>>

\* the caller moves on to the next record
NextRecord(x, y) ==
    /\ cpc = "called"
    /\ coordConvertCount < MaxCalls
    /\ cx' = x
    /\ cy' = y
    /\ cres' = NoCoord
    /\ cInRange' = "unset"
    /\ cpc' = "ready"
    /\ UNCHANGED coordConvertCount
    /\ UNCHANGED <<execVars, normVars, detailVars, statsVars, fetchVars>>

(***************************************************************************)
(* DetailAggregator (TourDetailData)                                       *)
(***************************************************************************)

MaxImages == 2
MaxRecLen == 2

\* An image URL is a string, written as a sequence of tokens, or null.
NullUrl == <<"<null>">>
StartsWith(str, prefix) == str # <<>> /\ str[1] = prefix
ToLowerCase(str) == [i \in 1..Len(str) |-> IF str[i] = "NULL" THEN "null" ELSE str[i]]

isValidImageUrl(url) ==
    IF url = NullUrl \/ url = <<>> THEN FALSE
    ELSE LET trimmed == Trim(url) IN
         IF trimmed = <<>> THEN FALSE
         ELSE IF trimmed = <<"null">> \/ trimmed = <<"undefined">> THEN FALSE
         ELSE IF ToLowerCase(trimmed) = <<"null">> THEN FALSE
         ELSE IF ~StartsWith(trimmed, "http://") /\ ~StartsWith(trimmed, "https://")
         THEN FALSE
         ELSE TRUE

\* What the fetchers resolve or reject with.
CurrentId == "cur"
NoDetail ==
    [contentid |-> "", contenttypeid |-> "", areacode |-> "",
     firstimage |-> NullUrl, firstimage2 |-> NullUrl]
Details ==
    [contentid : {CurrentId}, contenttypeid : {"12"}, areacode : {"1", ""},
     firstimage : {NullUrl, <<"http://", "c1">>, <<"null">>},
     firstimage2 : {NullUrl, <<"https://", "c2">>}]
NotFoundError == TourApiError(NoStatus, "notFound", Absent, Absent)
RequiredParamError == TourApiError(NoStatus, "required", Absent, Absent)
FetchErrors == {NotFoundError, TourApiError(500, "http", Absent, Absent)}

Resolved(v) == [ok |-> TRUE, val |-> v, err |-> NoError]
Rejected(e, empty) == [ok |-> FALSE, val |-> empty, err |-> e]
Pending(empty) == [ok |-> FALSE, val |-> empty, err |-> NoError]

GalleryUrls == {<<"http://", "g1">>, <<"https://", "g2">>}
ImageLists == UNION { [1..n -> GalleryUrls] : n \in 0..MaxImages }
RecIds == {CurrentId, "a", "b"}
LongRecLists ==
    { <<"a", "b", "c", "d", "e", "f", "g">>,
      <<"a", CurrentId, "b", "c", "d", "e", "f">>,
      <<"a", CurrentId, "b", "c", "d", "e", "f", "g", "h">> }
RecLists == LongRecLists \cup UNION { [1..n -> RecIds] : n \in 0..MaxRecLen }

CommonOutcomes ==
    { Resolved(d) : d \in Details } \cup { Rejected(e, NoDetail) : e \in FetchErrors }
IntroOutcomes ==
    { Resolved("intro") } \cup { Rejected(e, "null") : e \in FetchErrors }
ImageOutcomes ==
    { Resolved(l) : l \in ImageLists } \cup { Rejected(e, <<>>) : e \in FetchErrors }
PetOutcomes ==
    { Resolved("pet"), Resolved("null") }
    \cup { Rejected(TourApiError(500, "http", Absent, Absent), "null") }
RecOutcomes ==
    { Resolved(l) : l \in RecLists } \cup { Rejected(e, <<>>) : e \in FetchErrors }

NoneGot ==
    [common |-> Pending(NoDetail), intro |-> Pending("null"),
     images |-> Pending(<<>>), pet |-> Pending("null"), recs |-> Pending(<<>>)]

\* items.slice(0, n)
Slice0(items, n) == SubSeq(items, 1, IF Len(items) < n THEN Len(items) ELSE n)

\* images.find(isValidImageUrl(originimgurl)), NullUrl when there is none
RECURSIVE FindValid(_)
FindValid(images) ==
    IF images = <<>> THEN NullUrl
    ELSE IF isValidImageUrl(images[1]) THEN images[1]
    ELSE FindValid(Tail(images))

\* the catch block of TourDetailData: notFound() throws, otherwise the error
\* view is returned
DetailCatch(err) ==
    /\ dCaught' = err
    /\ IF err.kind = "notFound"
       THEN dpc' = "notFound" /\ dThrown' = MkError("NEXT_NOT_FOUND", 404, "notFound", Absent, Absent)
       ELSE dpc' = "errorView" /\ dThrown' = NoError

\* TourDetailData({contentId}): check the argument, call getDetailCommon
DetailStart(contentId) ==
    /\ dpc = "idle"
    /\ dId' = contentId
    /\ IF contentId = <<>> \/ Trim(contentId) = <<>>
       THEN /\ DetailCatch(MkError("Error", NoStatus, "required", Absent, Absent))
            /\ UNCHANGED dIssued
       ELSE /\ dpc' = "common"
            /\ dIssued' = Append(dIssued, "common")
            /\ UNCHANGED <<dCaught, dThrown>>
    /\ UNCHANGED <<dGot, dDetail, dIntro, dImages, dPet, dRecs>>
    /\ UNCHANGED <<execVars, normVars, coordVars, statsVars, fetchVars>>

\* variant: a failed getDetailCommon is swallowed and the rendering goes on
CommonSettles_Continue(o) ==
    /\ dpc = "common"
    /\ dGot' = [dGot EXCEPT !.common = o]
    /\ dDetail' = [o.val EXCEPT
                     !.firstimage = IF @ = <<>> THEN NullUrl ELSE @,
                     !.firstimage2 = IF @ = <<>> THEN NullUrl ELSE @]
    /\ dpc' = "intro"
    /\ dIssued' = Append(dIssued, "intro")
    /\ UNCHANGED <<dCaught, dThrown>>
    /\ UNCHANGED <<dId, dIntro, dImages, dPet, dRecs>>
    /\ UNCHANGED <<execVars, normVars, coordVars, statsVars, fetchVars>>

\* getDetailCommon settles; on success getDetailIntro is called
CommonSettles(o) ==
    /\ dpc = "common"
    /\ dGot' = [dGot EXCEPT !.common = o]
    /\ IF ~o.ok
       THEN /\ DetailCatch(o.err)
            /\ UNCHANGED <<dIssued, dDetail>>
       ELSE /\ dDetail' = [o.val EXCEPT
                             !.firstimage = IF @ = <<>> THEN NullUrl ELSE @,
                             !.firstimage2 = IF @ = <<>> THEN NullUrl ELSE @]
            /\ dpc' = "intro"
            /\ dIssued' = Append(dIssued, "intro")
            /\ UNCHANGED <<dCaught, dThrown>>
    /\ UNCHANGED <<dId, dIntro, dImages, dPet, dRecs>>
    /\ UNCHANGED <<execVars, normVars, coordVars, statsVars, fetchVars>>

\* variant: a failed getDetailIntro ends the rendering in the catch block
IntroSettles_Abort(o) ==
    /\ dpc = "intro"
    /\ dGot' = [dGot EXCEPT !.intro = o]
    /\ IF o.ok
       THEN /\ dIntro' = o.val
            /\ dpc' = "images"
            /\ dIssued' = Append(dIssued, "images")
            /\ UNCHANGED <<dCaught, dThrown>>
       ELSE /\ DetailCatch(o.err)
            /\ UNCHANGED <<dIntro, dIssued>>
    /\ UNCHANGED <<dId, dDetail, dImages, dPet, dRecs>>
    /\ UNCHANGED <<execVars, normVars, coordVars, statsVars, fetchVars>>

\* getDetailIntro settles; getDetailImage is called
IntroSettles(o) ==
    /\ dpc = "intro"
    /\ dGot' = [dGot EXCEPT !.intro = o]
    /\ dIntro' = IF o.ok THEN o.val ELSE "null"
    /\ dpc' = "images"
    /\ dIssued' = Append(dIssued, "images")
    /\ UNCHANGED <<dId, dDetail, dImages, dPet, dRecs, dCaught, dThrown>>
    /\ UNCHANGED <<execVars, normVars, coordVars, statsVars, fetchVars>>

\* variant: the gallery images replace firstimage / firstimage2 even when
\* those are valid
ImagesSettles_Overwrite(o) ==
    /\ dpc = "images"
    /\ dGot' = [dGot EXCEPT !.images = o]
    /\ dImages' = IF o.ok THEN o.val ELSE <<>>
    /\ LET images == o.val
           first  == IF o.ok /\ Len(images) > 0 /\ FindValid(images) # NullUrl
                     THEN FindValid(images) ELSE dDetail.firstimage
           second == IF o.ok /\ Len(images) > 1 /\ FindValid(Tail(images)) # NullUrl
                     THEN FindValid(Tail(images)) ELSE dDetail.firstimage2
       IN  dDetail' = [dDetail EXCEPT !.firstimage = first, !.firstimage2 = second]
    /\ dpc' = "pet"
    /\ dIssued' = Append(dIssued, "pet")
    /\ UNCHANGED <<dId, dIntro, dPet, dRecs, dCaught, dThrown>>
    /\ UNCHANGED <<execVars, normVars, coordVars, statsVars, fetchVars>>

\* getDetailImage settles: a missing firstimage / firstimage2 is filled from
\* the gallery; getDetailPetTour is called
ImagesSettles(o) ==
    /\ dpc = "images"
    /\ dGot' = [dGot EXCEPT !.images = o]
    /\ dImages' = IF o.ok THEN o.val ELSE <<>>
    /\ LET images == o.val
           first  == IF o.ok /\ ~isValidImageUrl(dDetail.firstimage)
                        /\ Len(images) > 0 /\ FindValid(images) # NullUrl
                     THEN FindValid(images) ELSE dDetail.firstimage
           second == IF o.ok /\ ~isValidImageUrl(dDetail.firstimage2)
                        /\ Len(images) > 1 /\ FindValid(Tail(images)) # NullUrl
                     THEN FindValid(Tail(images)) ELSE dDetail.firstimage2
       IN  dDetail' = [dDetail EXCEPT !.firstimage = first, !.firstimage2 = second]
    /\ dpc' = "pet"
    /\ dIssued' = Append(dIssued, "pet")
    /\ UNCHANGED <<dId, dIntro, dPet, dRecs, dCaught, dThrown>>
    /\ UNCHANGED <<execVars, normVars, coordVars, statsVars, fetchVars>>

\* getDetailPetTour settles; getAreaBasedList is called for the related list
PetSettles(o) ==
    /\ dpc = "pet"
    /\ dGot' = [dGot EXCEPT !.pet = o]
    /\ dPet' = IF o.ok THEN o.val ELSE "null"
    /\ dpc' = "recs"
    /\ dIssued' = Append(dIssued, "recs")
    /\ UNCHANGED <<dId, dDetail, dIntro, dImages, dRecs, dCaught, dThrown>>
    /\ UNCHANGED <<execVars, normVars, coordVars, statsVars, fetchVars>>

\* DetailRecommendations: the list it shows of the list it is given
RelatedShown(recommendations, currentContentId) ==
    Slice0(SelectSeq(recommendations, LAMBDA id : id # currentContentId), 6)

\* variant: the current entity is not removed from the related list
RecsSettles_NoFilter(o) ==
    /\ dpc = "recs"
    /\ dGot' = [dGot EXCEPT !.recs = o]
    /\ dRecs' = IF o.ok THEN Slice0(o.val, 6) ELSE <<>>
    /\ dpc' = "content"
    /\ UNCHANGED <<dId, dIssued, dDetail, dIntro, dImages, dPet, dCaught, dThrown>>
    /\ UNCHANGED <<execVars, normVars, coordVars, statsVars, fetchVars>>

\* getAreaBasedList settles: the current entity is removed, 6 entries are
\* kept, and the content is returned
RecsSettles(o) ==
    /\ dpc = "recs"
    /\ dGot' = [dGot EXCEPT !.recs = o]
    /\ dRecs' = IF o.ok
                THEN Slice0(SelectSeq(o.val, LAMBDA id : id # dDetail.contentid), 6)
                ELSE <<>>
    /\ dpc' = "content"
    /\ UNCHANGED <<dId, dIssued, dDetail, dIntro, dImages, dPet, dCaught, dThrown>>
    /\ UNCHANGED <<execVars, normVars, coordVars, statsVars, fetchVars>>

ContentIds == {<<>>, <<" ">>, <<"c", "u", "r">>}

DetailInit ==
    /\ dpc = "idle"
    /\ dId = <<>>
    /\ dGot = NoneGot
    /\ dIssued = <<>>
    /\ dDetail = NoDetail
    /\ dIntro = "null"
    /\ dImages = <<>>
    /\ dPet = "null"
    /\ dRecs = <<>>
    /\ dCaught = NoError
    /\ dThrown = NoError

(***************************************************************************)
(* StatsAggregator (getRegionStats, getTypeStats, getStatsSummary)         *)
(***************************************************************************)

MaxAreas == 2

CONTENT_TYPE_IDS == <<"12", "14", "15", "25", "28", "32", "38", "39">>

\* totalCount values of a partition query; 0 is what `totalCount || 0` gives
\* for a missing count
Counts == {0, 1, 2}

\* variant: the percentage is cut after two decimals
calculatePercentage_Truncated(count, total) ==
    IF total = 0 THEN 0 ELSE (count * 10000) \div total

\* calculatePercentage, in hundredths of a percent: toFixed(2) rounds to the
\* nearest hundredth, an exact half upwards
calculatePercentage(count, total) ==
    IF total = 0 THEN 0 ELSE (2 * count * 10000 + total) \div (2 * total)

\* seq.reduce((sum, stat) => sum + stat.count, 0)
RECURSIVE SumCounts(_)
SumCounts(seq) == IF seq = <<>> THEN 0 ELSE seq[1].count + SumCounts(Tail(seq))

\* variant: the array is returned in partition order
SortByCount_Unsorted(seq) == seq

\* validStats.sort((a, b) => b.count - a.count): larger counts first, equal
\* counts in their former order
SortByCount(seq) ==
    LET Rank(i) == Cardinality({ j \in 1..Len(seq) :
                        \/ seq[j].count > seq[i].count
                        \/ seq[j].count = seq[i].count /\ j < i }) + 1
    IN  [n \in 1..Len(seq) |-> seq[CHOOSE i \in 1..Len(seq) : Rank(i) = n]]

\* the areas getAreaCode may resolve with: some lack a code or a name
AreaItems ==
    { [code |-> "1", name |-> "Seoul"], [code |-> "2", name |-> "Incheon"],
      [code |-> "", name |-> "NoCode"], [code |-> "3", name |-> ""] }
AreaLists ==
    { l \in UNION { [1..n -> AreaItems] : n \in 0..MaxAreas } :
        \A i, j \in 1..Len(l) : i # j => l[i] # l[j] }
AreaOutcomes ==
    { Resolved(l) : l \in AreaLists } \cup { Rejected(e, <<>>) : e \in FetchErrors }

PartitionOutcomes ==
    { Resolved(c) : c \in Counts } \cup { Rejected(TourApiError(500, "http", Absent, Absent), 0) }
PendingQuery == Pending(0)

NoSummary == [totalCount |-> -1, topRegions |-> <<>>, topTypes |-> <<>>]

\* the fan-out: one getAreaBasedList call per partition, all issued before
\* any is awaited
FanOut(keys) ==
    /\ sParts' = keys
    /\ sIssued' = keys
    /\ sSettled' = [i \in 1..Len(keys) |-> PendingQuery]
    /\ sApiCalls' = sApiCalls + Len(keys)
    /\ spc' = "fanout"

\* unstable_cache: the entry kept for a wrapped function
MaxStatsCalls == 2
NoCache == [hit |-> FALSE, val |-> <<>>, calls |-> 0]
Cached(val, calls) == [hit |-> TRUE, val |-> val, calls |-> calls]
StatsCall(kind, hit) == [kind |-> kind, hit |-> hit]

\* variant: a failed partition is kept as an entry of count 0
ValidStats_KeepFailed(parts, settled) ==
    [n \in 1..Len(parts) |->
        [key |-> parts[n], count |-> IF settled[n].ok THEN settled[n].val ELSE 0]]

\* variant: only the failed partitions are filtered out
ValidStats_KeepEmpty(parts, settled) ==
    LET kept == SelectSeq([i \in 1..Len(parts) |-> i], LAMBDA i : settled[i].ok)
    IN  [n \in 1..Len(kept) |-> [key |-> parts[kept[n]], count |-> settled[kept[n]].val]]

\* results.filter(stat => stat !== null && stat.count > 0)
ValidStats(parts, settled) ==
    LET kept == SelectSeq([i \in 1..Len(parts) |-> i],
                          LAMBDA i : settled[i].ok /\ settled[i].val > 0)
    IN  [n \in 1..Len(kept) |-> [key |-> parts[kept[n]], count |-> settled[kept[n]].val]]

\* getRegionStats(): getAreaCode is called
StartRegion ==
    /\ spc = "idle"
    /\ sKind' = "region"
    /\ spc' = "areas"
    /\ sCalls' = Append(sCalls, StatsCall("region", FALSE))
    /\ sApiCalls' = sApiCalls + 1
    /\ UNCHANGED <<sParts, sIssued, sSettled, sResult, sThrown, sSummary, sCache>>
    /\ UNCHANGED <<execVars, normVars, coordVars, detailVars, fetchVars>>

\* getAreaCode settles: [] when it failed or gave no area, else one query per
\* area that has a code and a name
AreasSettle(o) ==
    /\ spc = "areas"
    /\ IF ~o.ok \/ Len(o.val) = 0
       THEN /\ sResult' = <<>>
            /\ sCache' = [sCache EXCEPT !.region = Cached(<<>>, sApiCalls)]
            /\ spc' = "done"
            /\ UNCHANGED <<sParts, sIssued, sSettled, sApiCalls>>
       ELSE /\ FanOut(SelectSeq(o.val, LAMBDA area : area.code # "" /\ area.name # ""))
            /\ UNCHANGED <<sResult, sCache>>
    /\ UNCHANGED <<sKind, sThrown, sSummary, sCalls>>
    /\ UNCHANGED <<execVars, normVars, coordVars, detailVars, fetchVars>>

\* getTypeStats(): one query per content type
StartType ==
    /\ spc = "idle"
    /\ sKind' = "type"
    /\ FanOut(CONTENT_TYPE_IDS)
    /\ sCalls' = Append(sCalls, StatsCall("type", FALSE))
    /\ UNCHANGED <<sResult, sThrown, sSummary, sCache>>
    /\ UNCHANGED <<execVars, normVars, coordVars, detailVars, fetchVars>>

\* one partition query settles; a rejection is caught and becomes null
PartitionSettles(i, o) ==
    /\ spc = "fanout"
    /\ i \in 1..Len(sParts)
    /\ sSettled[i] = PendingQuery
    /\ sSettled' = [sSettled EXCEPT ![i] = o]
    /\ UNCHANGED <<spc, sKind, sParts, sIssued, sResult, sThrown, sSummary,
                   sCache, sCalls, sApiCalls>>
    /\ UNCHANGED <<execVars, normVars, coordVars, detailVars, fetchVars>>

\* Promise.all resolves: filter, percentages (types only), sort, return
Join ==
    /\ spc = "fanout"
    /\ \A i \in 1..Len(sParts) : sSettled[i] # PendingQuery
    /\ LET validStats == ValidStats(sParts, sSettled)
           totalCount == SumCounts(validStats)
       IN  sResult' =
             IF sKind = "region"
             THEN SortByCount([i \in 1..Len(validStats) |->
                     [code |-> validStats[i].key.code, name |-> validStats[i].key.name,
                      count |-> validStats[i].count]])
             ELSE SortByCount([i \in 1..Len(validStats) |->
                     [contentTypeId |-> validStats[i].key, count |-> validStats[i].count,
                      percentage |-> calculatePercentage(validStats[i].count, totalCount)]])
    /\ sCache' = [sCache EXCEPT ![sKind] = Cached(sResult', sApiCalls)]
    /\ spc' = "done"
    /\ UNCHANGED <<sKind, sParts, sIssued, sSettled, sThrown, sSummary, sCalls, sApiCalls>>
    /\ UNCHANGED <<execVars, normVars, coordVars, detailVars, fetchVars>>

\* getStatsSummary() with the aggregator that ran; the other one returned []
Summarize ==
    /\ spc = "done"
    /\ LET regionStats == IF sKind = "region" THEN sResult ELSE <<>>
           typeStats   == IF sKind = "type" THEN sResult ELSE <<>>
       IN  sSummary' = [totalCount |-> IF Len(typeStats) > 0 THEN SumCounts(typeStats) ELSE 0,
                        topRegions |-> Slice0(regionStats, 3),
                        topTypes |-> Slice0(typeStats, 3)]
    /\ spc' = "summary"
    /\ UNCHANGED <<sKind, sParts, sIssued, sSettled, sResult, sThrown,
                   sCache, sCalls, sApiCalls>>
    /\ UNCHANGED <<execVars, normVars, coordVars, detailVars, fetchVars>>

\* variant: no cache, the aggregator runs again on every call
CallAgain_Uncached ==
    /\ spc = "done"
    /\ Len(sCalls) < MaxStatsCalls
    /\ sCalls' = Append(sCalls, StatsCall(sKind, FALSE))
    /\ UNCHANGED sResult
    /\ IF sKind = "type" THEN FanOut(CONTENT_TYPE_IDS)
       ELSE /\ spc' = "areas"
            /\ sApiCalls' = sApiCalls + 1
            /\ sParts' = <<>> /\ sIssued' = <<>> /\ sSettled' = <<>>
    /\ UNCHANGED <<sKind, sThrown, sSummary, sCache>>
    /\ UNCHANGED <<execVars, normVars, coordVars, detailVars, fetchVars>>

\* getRegionStats() / getTypeStats() is called again: unstable_cache answers
\* with the entry it holds and runs the aggregator only when it holds none
CallAgain ==
    /\ spc = "done"
    /\ Len(sCalls) < MaxStatsCalls
    /\ sCalls' = Append(sCalls, StatsCall(sKind, sCache[sKind].hit))
    /\ IF sCache[sKind].hit
       THEN /\ sResult' = sCache[sKind].val
            /\ UNCHANGED <<spc, sParts, sIssued, sSettled, sApiCalls>>
       ELSE /\ UNCHANGED sResult
            /\ IF sKind = "type" THEN FanOut(CONTENT_TYPE_IDS)
               ELSE /\ spc' = "areas"
                    /\ sApiCalls' = sApiCalls + 1
                    /\ sParts' = <<>> /\ sIssued' = <<>> /\ sSettled' = <<>>
    /\ UNCHANGED <<sKind, sThrown, sSummary, sCache>>
    /\ UNCHANGED <<execVars, normVars, coordVars, detailVars, fetchVars>>

StatsInit ==
    /\ spc = "idle"
    /\ sKind = "none"
    /\ sParts = <<>>
    /\ sIssued = <<>>
    /\ sSettled = <<>>
    /\ sResult = <<>>
    /\ sThrown = NoError
    /\ sSummary = NoSummary
    /\ sCache = [region |-> NoCache, type |-> NoCache]
    /\ sCalls = <<>>
    /\ sApiCalls = 0

(***************************************************************************)
(* EntityFetchers                                                          *)
(***************************************************************************)

\* a string parameter: undefined, or a sequence of characters
Missing == <<"<undefined>">>
ParamStrings == {Missing, <<>>, <<" ">>, <<"1">>, <<" ", "1">>}
Falsy(str) == str = Missing \/ str = <<>>
Blank(str) == Falsy(str) \/ Trim(str) = <<>>

\* numeric fields: 0 stands for every falsy value (undefined, 0)
BodyCounts == {0, 5}
BodyRows == {0, 2}
ParamRows == {0, 1}
DEFAULT_ROWS == 12

NoParams ==
    [keyword |-> Missing, contentId |-> Missing, contentTypeId |-> Missing,
     areaCode |-> Missing, numOfRows |-> 0, pageNo |-> 0]
NoBody == [items |-> JSUndefined, totalCount |-> 0, numOfRows |-> 0, pageNo |-> 0]
Bodies == [items : JSValues, totalCount : BodyCounts, numOfRows : BodyRows, pageNo : {0, 2}]

TypeErrorThrown == MkError("TypeError", NoStatus, "typeError", Absent, Absent)
\* the text the catch of getDetailPetTour looks for in error.message
NotFoundText == "<not found text>"
UpstreamErrors ==
    {TourApiError(500, "http", Absent, Absent), TourApiError(404, "http", Absent, Absent),
     TourApiError(NoStatus, "wrapped", Absent, Absent),
     TourApiError(NoStatus, "apiResponseError", "NODATA", "0003"),
     TourApiError(NoStatus, "apiResponseError", NotFoundText, "0003")}
UpstreamOutcomes ==
    { Resolved(b) : b \in Bodies } \cup { Rejected(e, NoBody) : e \in UpstreamErrors }

\* error.message.includes("찾을 수 없습니다")
MessageSaysNotFound(err) == err.kind = "notFound" \/ err.provMsg = NotFoundText

NoPage == [totalCount |-> 0, numOfRows |-> 0, pageNo |-> 0, totalPages |-> 0]
FetchResult(kind, item, items, page) ==
    [kind |-> kind, item |-> item, items |-> items, page |-> page]
NoResult == FetchResult("none", JSUndefined, <<>>, NoPage)
ItemResult(item) == FetchResult("item", item, <<>>, NoPage)
ListResult(items) == FetchResult("list", JSUndefined, items, NoPage)
PageResult(items, page) == FetchResult("page", JSUndefined, items, page)

\* Math.ceil(a / b) for b > 0
Ceil(a, b) == (a + b - 1) \div b

\* x || y || z on numbers
FirstTruthy(x, y, z) == IF x # 0 THEN x ELSE IF y # 0 THEN y ELSE z

\* item.originimgurl of the upstream objects
OriginImgUrl(item) ==
    IF item.k = "object" /\ item.p = "o1" THEN <<"http://", "g1">>
    ELSE IF item.k = "object" /\ item.p = "o2" THEN <<"null">>
    ELSE Missing

\* the start of a fetcher: a required-parameter error, or fetchApiResponse
FetcherCall(name, params, invalid) ==
    /\ fpc = "idle"
    /\ fName' = name
    /\ fParams' = params
    /\ IF invalid
       THEN /\ fpc' = "threw"
            /\ fThrown' = RequiredParamError
            /\ UNCHANGED fApiCalls
       ELSE /\ fpc' = "awaiting"
            /\ fApiCalls' = fApiCalls + 1
            /\ UNCHANGED fThrown
    /\ UNCHANGED <<fBody, fRejected, fResult>>
    /\ UNCHANGED <<execVars, normVars, coordVars, detailVars, statsVars>>

searchKeyword(keyword, numOfRows) ==
    FetcherCall("searchKeyword",
                [NoParams EXCEPT !.keyword = keyword, !.numOfRows = numOfRows],
                Falsy(keyword) \/ Trim(keyword) = <<>>)

getDetailCommon(contentId) ==
    FetcherCall("getDetailCommon", [NoParams EXCEPT !.contentId = contentId],
                Falsy(contentId) \/ Trim(contentId) = <<>>)

getDetailIntro(contentId, contentTypeId) ==
    FetcherCall("getDetailIntro",
                [NoParams EXCEPT !.contentId = contentId, !.contentTypeId = contentTypeId],
                \/ Falsy(contentId) \/ Trim(contentId) = <<>>
                \/ Falsy(contentTypeId) \/ Trim(contentTypeId) = <<>>)

getDetailImage(contentId) ==
    FetcherCall("getDetailImage", [NoParams EXCEPT !.contentId = contentId],
                Falsy(contentId) \/ Trim(contentId) = <<>>)

getDetailPetTour(contentId) ==
    FetcherCall("getDetailPetTour", [NoParams EXCEPT !.contentId = contentId],
                Falsy(contentId) \/ Trim(contentId) = <<>>)

getAreaBasedList(areaCode, contentTypeId, numOfRows) ==
    FetcherCall("getAreaBasedList",
                [NoParams EXCEPT !.areaCode = areaCode, !.contentTypeId = contentTypeId,
                                 !.numOfRows = numOfRows],
                Falsy(areaCode) \/ Falsy(contentTypeId))

\* the filter of getDetailImage on one item
ValidImageItem(item) ==
    LET originimgurl == OriginImgUrl(item) IN
    IF Falsy(originimgurl) THEN FALSE
    ELSE LET url == Trim(originimgurl) IN
         IF url = <<>> \/ url = <<"null">> \/ url = <<"undefined">>
            \/ ToLowerCase(url) = <<"null">>
         THEN FALSE
         ELSE IF ~StartsWith(url, "http://") /\ ~StartsWith(url, "https://")
         THEN FALSE
         ELSE TRUE

\* reading a property of null or undefined throws a TypeError
Nullish(v) == v.k \in {"null", "undefined"}

\* getAreaBasedList: rawItems, unwrapped once before normalizeItems
RawItems(items) ==
    IF Truthy(items) /\ TypeOf(items) = "object" /\ ~IsArray(items)
       /\ InItem(items) = "true"
    THEN items.item[1] ELSE items

\* the paging fields of getAreaBasedList / searchKeyword
Paging(body, params) ==
    LET numOfRows == FirstTruthy(body.numOfRows, params.numOfRows, DEFAULT_ROWS)
    IN  [totalCount |-> body.totalCount,
         numOfRows |-> numOfRows,
         pageNo |-> FirstTruthy(body.pageNo, params.pageNo, 1),
         totalPages |-> Ceil(body.totalCount, numOfRows)]

FetcherReturns(value) ==
    /\ fpc' = "returned"
    /\ fResult' = value
    /\ UNCHANGED fThrown

FetcherThrows(err) ==
    /\ fpc' = "threw"
    /\ fThrown' = err
    /\ UNCHANGED fResult

\* what a fetcher does with the body that fetchApiResponse resolved with
FetcherContinues(body) ==
    LET normalized == normalizeItems(IF fName = "getAreaBasedList"
                                     THEN RawItems(body.items) ELSE body.items)
        items == normalized.val.elems
    IN  IF normalized.threw THEN FetcherThrows(TypeErrorThrown)
        ELSE IF fName \in {"getAreaBasedList", "searchKeyword"}
        THEN FetcherReturns(PageResult(items, Paging(body, fParams)))
        ELSE IF fName = "getDetailCommon"
        THEN IF Len(items) = 0 THEN FetcherThrows(NotFoundError)
             ELSE IF Nullish(items[1]) THEN FetcherThrows(TypeErrorThrown)
             ELSE FetcherReturns(ItemResult(items[1]))
        ELSE IF fName = "getDetailIntro"
        THEN IF Len(items) = 0 THEN FetcherThrows(NotFoundError)
             ELSE FetcherReturns(ItemResult(items[1]))
        ELSE IF fName = "getDetailImage"
        THEN IF \E i \in 1..Len(items) : Nullish(items[i])
             THEN FetcherThrows(TypeErrorThrown)
             ELSE FetcherReturns(ListResult(SelectSeq(items, ValidImageItem)))
        ELSE IF Len(items) = 0 THEN FetcherReturns(ItemResult(JSNull))
             ELSE FetcherReturns(ItemResult(items[1]))

\* fetchApiResponse settles and the fetcher runs to its end
FetchSettles(o) ==
    /\ fpc = "awaiting"
    /\ fBody' = o.val
    /\ fRejected' = o.err
    /\ IF o.ok THEN FetcherContinues(o.val)
       ELSE IF fName = "getDetailPetTour" /\ o.err.name = "TourApiError"
               /\ MessageSaysNotFound(o.err)
       THEN FetcherReturns(ItemResult(JSNull))
       ELSE FetcherThrows(o.err)
    /\ UNCHANGED <<fName, fParams, fApiCalls>>
    /\ UNCHANGED <<execVars, normVars, coordVars, detailVars, statsVars>>

FetchInit ==
    /\ fpc = "idle"
    /\ fName = "none"
    /\ fParams = NoParams
    /\ fApiCalls = 0
    /\ fBody = NoBody
    /\ fRejected = NoError
    /\ fResult = NoResult
    /\ fThrown = NoError

(***************************************************************************)
(* Specifications                                                          *)
(***************************************************************************)

\* A component that is not exercised by a specification stays at rest.
ExecRest  == ExecInit /\ hasKey = TRUE
NormRest  == nIn = JSNull /\ nOut = NoOutcome /\ nOut2 = NoOutcome /\ npc = "start"
CoordRest == cx = <<>> /\ cy = <<>> /\ cres = NoCoord /\ cpc = "ready"
             /\ cInRange = "unset"
             /\ coordConvertCount = 0

DetailRest == DetailInit
StatsRest == StatsInit
FetchRest == FetchInit

\* one fetchApiResponse call
Init == ExecInit /\ NormRest /\ CoordRest /\ DetailRest /\ StatsRest /\ FetchRest
Next ==
    \/ \E t \in {REQUEST_TIMEOUT, StatsTimeout} : Execute(t)
    \/ FetchRejects
    \/ TimerFires
    \/ \E s \in Statuses : FetchResponds(s)
    \/ \E d \in Envelopes : BodyArrives(d)
    \/ BodyInvalid
    \/ Wake
Spec == Init /\ [][Next]_vars

\* The timers of the runtime fire: the abort timer of a pending fetch and the
\* timer of a backoff delay; a caller that calls does call.  Nothing makes
\* the upstream answer.
FairSpec ==
    /\ Spec
    /\ WF_vars(TimerFires)
    /\ WF_vars(Wake)
    /\ WF_vars(\E t \in {REQUEST_TIMEOUT, StatsTimeout} : Execute(t))

\* normalizeItems applied to a value and then to its own result
NormInit0 == ExecRest /\ NormInit /\ CoordRest /\ DetailRest /\ StatsRest /\ FetchRest
NormNext == Normalize \/ NormalizeAgain
NormSpec == NormInit0 /\ [][NormNext]_vars

\* calls of convertKATECToWGS84
CoordInit0 == ExecRest /\ NormRest /\ CoordInit /\ DetailRest /\ StatsRest /\ FetchRest
CoordNext ==
    \/ Convert
    \/ \E x \in CoordStrings, y \in CoordStrings : NextRecord(x, y)
CoordSpec == CoordInit0 /\ [][CoordNext]_vars

\* one rendering of TourDetailData
DetailInit0 == ExecRest /\ NormRest /\ CoordRest /\ DetailInit /\ StatsRest /\ FetchRest
DetailNext ==
    \/ \E id \in ContentIds : DetailStart(id)
    \/ \E o \in CommonOutcomes : CommonSettles(o)
    \/ \E o \in IntroOutcomes : IntroSettles(o)
    \/ \E o \in ImageOutcomes : ImagesSettles(o)
    \/ \E o \in PetOutcomes : PetSettles(o)
    \/ \E o \in RecOutcomes : RecsSettles(o)
DetailSpec == DetailInit0 /\ [][DetailNext]_vars

\* one call of getRegionStats or getTypeStats, then getStatsSummary
StatsInit0 == ExecRest /\ NormRest /\ CoordRest /\ DetailRest /\ StatsInit /\ FetchRest
StatsNext ==
    \/ StartRegion
    \/ \E o \in AreaOutcomes : AreasSettle(o)
    \/ StartType
    \/ \E i \in 1..Len(CONTENT_TYPE_IDS), o \in PartitionOutcomes : PartitionSettles(i, o)
    \/ Join
    \/ Summarize
    \/ CallAgain
StatsSpec == StatsInit0 /\ [][StatsNext]_vars

\* one call of one fetcher
FetchInit0 == ExecRest /\ NormRest /\ CoordRest /\ DetailRest /\ StatsRest /\ FetchInit
FetchNext ==
    \/ \E kw \in ParamStrings, n \in ParamRows : searchKeyword(kw, n)
    \/ \E id \in ParamStrings : getDetailCommon(id)
    \/ \E id, type \in ParamStrings : getDetailIntro(id, type)
    \/ \E id \in ParamStrings : getDetailImage(id)
    \/ \E id \in ParamStrings : getDetailPetTour(id)
    \/ \E area, type \in ParamStrings, n \in ParamRows : getAreaBasedList(area, type, n)
    \/ \E o \in UpstreamOutcomes : FetchSettles(o)
FetchSpec == FetchInit0 /\ [][FetchNext]_vars

(***************************************************************************)
(* Properties of the RequestExecutor (Spec, FairSpec)                      *)
(***************************************************************************)

IsHttp(e, status) == e.ev = "http" /\ e.status = status
Is4xx(e) == e.ev = "http" /\ e.status >= 400 /\ e.status <= 499
LastEvent == events[Len(events)]

AllAttempts500 ==
    events # <<>> /\ \A i \in 1..Len(events) : IsHttp(events[i], 500)

\* C1: when every attempt received HTTP 500 the call is not over before the
\* 4th attempt (3 retries, 3 delays), and after the 4th attempt it has failed
\* with the error of that last attempt, a TourApiError with status 500.
C1_Retries500 ==
    AllAttempts500 =>
        /\ Len(events) <= 4
        /\ (Len(events) < 4 => ~ExecDone)
        /\ (Len(events) = 4 =>
                /\ pc = "failed"
                /\ Len(waited) = 3
                /\ thrown = lastError
                /\ thrown.name = "TourApiError"
                /\ thrown.kind = "http"
                /\ thrown.statusCode = 500)

C1_Witness == AllAttempts500 /\ Len(events) = 4 /\ pc = "failed"

\* C2 as stated: an attempt that received any 4xx status is the last attempt,
\* the call has failed with that status and no delay follows it.
C2_Every4xxFailsAtOnce ==
    \A i \in 1..Len(events) :
        Is4xx(events[i]) =>
            /\ i = Len(events)
            /\ pc = "failed"
            /\ Len(waited) = i - 1
            /\ thrown.statusCode = events[i].status

\* C2 amended: an attempt that received a 4xx status other than 429 is the
\* last attempt: the call has failed with that status, no delay follows it,
\* and when it was the first attempt exactly one attempt was made.
C2_Non429FailsAtOnce ==
    \A i \in 1..Len(events) :
        (Is4xx(events[i]) /\ events[i].status # 429) =>
            /\ i = Len(events)
            /\ pc = "failed"
            /\ Len(waited) = i - 1
            /\ thrown.name = "TourApiError"
            /\ thrown.statusCode = events[i].status

C2_Witness ==
    /\ pc = "failed"
    /\ Len(events) = 1
    /\ IsHttp(events[1], 404)
    /\ waited = <<>>

\* C3 as stated: a transport failure of fetch() on one of the first three
\* attempts is retried, so it does not end the call.
C3_NetworkFailureRetried ==
    \A i \in 1..Len(events) :
        (events[i].ev = "network" /\ i <= 3) =>
            ~(i = Len(events) /\ pc = "failed")

\* C4: the k-th delay is 1s, 2s, 4s, or 5s, 10s, 15s when the attempt that
\* just failed received 429; there are at most 3 delays, one after every
\* attempt but the last.
C4_BackoffDelays ==
    /\ Len(waited) <= 3
    /\ \A k \in 1..Len(waited) :
          /\ k <= Len(events)
          /\ waited[k] = IF IsHttp(events[k], 429)
                         THEN <<5000, 10000, 15000>>[k]
                         ELSE <<1000, 2000, 4000>>[k]
    /\ (pc = "sleeping" => Len(waited) = Len(events))
    /\ (ExecDone /\ events # <<>> => Len(waited) = Len(events) - 1)

C4_Witness ==
    /\ ExecDone
    /\ waited = <<1000, 10000, 4000>>

\* C5 as stated: a call that has started is eventually over, whatever the
\* upstream does.
C5_CallTerminates == (pc # "idle") ~> ExecDone

\* the envelope checks on the body of an attempt
TopLevelError(d) ==
    d.shape = "object" /\ d.topCode # Absent /\ d.response = Absent
FailedAs(kind) ==
    pc = "failed" /\ thrown.name = "TourApiError" /\ thrown.kind = kind
    /\ thrown.statusCode = NoStatus

\* C6 as stated: a top-level resultCode without response is an upstream
\* error with the provider's message and code; a missing response or a
\* missing response.body is a validation error; a header resultCode other
\* than "0000" is an upstream error.
C6_EnvelopeAsStated ==
    \A i \in 1..Len(events) :
        events[i].ev = "json" =>
            LET d == events[i].data IN
            /\ (TopLevelError(d) =>
                    /\ FailedAs("apiResponseError")
                    /\ thrown.provCode = d.topCode
                    /\ thrown.provMsg = OrElse(d.topMsg, "unknown"))
            /\ (~TopLevelError(d) /\ d.shape \in {"null", "array", "object"}
                /\ (d.response # "obj" \/ d.body = Absent)
                /\ d.code \in {Absent, "0000"} =>
                    FailedAs("invalidStructure"))
            /\ (d.response = "obj" /\ d.code \notin {Absent, "0000"} =>
                    FailedAs("apiResponseError"))

\* C6 amended: the second case is a body without a non-null response member
\* (a response without body or header passes), the third a non-empty header
\* resultCode other than "0000"; each of the three ends the call at once.
C6_EnvelopeChecks ==
    \A i \in 1..Len(events) :
        events[i].ev = "json" =>
            LET d == events[i].data IN
            /\ i = Len(events)
            /\ ExecDone
            /\ (TopLevelError(d) =>
                    /\ FailedAs("apiResponseError")
                    /\ thrown.provCode = d.topCode
                    /\ thrown.provMsg = OrElse(d.topMsg, "unknown"))
            /\ (~TopLevelError(d)
                /\ d.shape \in {"null", "falsy", "array", "object"}
                /\ d.response # "obj" =>
                    FailedAs("invalidStructure"))
            /\ (d.shape = "prim" => FailedAs("wrapped"))
            /\ (d.response = "obj" /\ d.code \notin {Absent, "", "0000"} =>
                    /\ FailedAs("apiResponseError")
                    /\ thrown.provCode = d.code
                    /\ thrown.provMsg = OrElse(d.msg, "unknown"))
            /\ (d.response = "obj" /\ d.code \in {Absent, "", "0000"} =>
                    pc = "returned" /\ result = d)

C6_Witness ==
    /\ events # <<>>
    /\ LastEvent.ev = "json"
    /\ TopLevelError(LastEvent.data)
    /\ LastEvent.data.topMsg = "LIMITED"
    /\ FailedAs("apiResponseError")
    /\ thrown.provMsg = "LIMITED"

AcceptedShape(v) == v.k \in {"null", "undefined", "array", "object"}

\* C8: on the four accepted shapes normalizeItems returns an array without
\* throwing, and applied to that array it returns the same array.
C8_Idempotent ==
    AcceptedShape(nIn) =>
        /\ (npc # "start" => ~nOut.threw /\ nOut.val.k = "array")
        /\ (npc = "twice" => ~nOut2.threw /\ nOut2.val = nOut.val)

C8_Witness ==
    /\ npc = "twice"
    /\ nIn = JSWrapper(JSArray(<<JSObject("o1"), JSObject("o2")>>))
    /\ nOut2.val = JSArray(<<JSObject("o1"), JSObject("o2")>>)

\* C9 as stated: an input that is none of the four shapes gives the empty
\* list.
C9_UnrecognizedIsEmpty ==
    (~AcceptedShape(nIn) /\ npc # "start") =>
        ~nOut.threw /\ nOut.val = JSArray(<<>>)

\* C9 amended: for a primitive input normalizeItems does not throw; a falsy
\* primitive ("", 0, NaN, false) gives the empty list and a truthy one the
\* one-element list holding it.
C9_PrimitiveWrapped ==
    (~AcceptedShape(nIn) /\ npc # "start") =>
        /\ ~nOut.threw
        /\ nOut.val =
             IF nIn \in {JSString(""), JSNumber("0"), JSNumber("NaN"),
                         JSBool("false")}
             THEN JSArray(<<>>)
             ELSE JSArray(<<nIn>>)

C9_Witness ==
    /\ npc = "once"
    /\ nIn = JSString("abc")
    /\ nOut = Returned(JSArray(<<JSString("abc")>>))

(***************************************************************************)
(* Properties of convertKATECToWGS84 (CoordSpec)                           *)
(***************************************************************************)

HasSeparator(s) == Includes(Trim(s), ".") \/ Includes(Trim(s), ",")
FixedPointX == <<"1","2","7","1","2","3","4","5","6","7">>
FixedPointY == <<"3","7","1","2","3","4","5","6","7">>
DecimalX    == <<"1","2","7",".","1","2","3","4","5","6","7">>
DecimalY    == <<"3","7",".","1","2","3","4","5","6","7">>
Lat37_1234567  == [k |-> "fin", m |-> 371234567, e |-> 7]
Lng127_1234567 == [k |-> "fin", m |-> 1271234567, e |-> 7]

ParsedX == parseFloat(Trim(cx))
ParsedY == parseFloat(Trim(cy))
InvalidInput ==
    IsNaN(ParsedX) \/ IsNaN(ParsedY) \/ IsZero(ParsedX) \/ IsZero(ParsedY)

\* C11 as stated: the call throws exactly when an input parses to NaN or to
\* zero, and otherwise returns two finite numbers.
C11_ThrowsOrFinite ==
    cpc = "called" =>
        /\ (InvalidInput => ~cres.ok /\ cres.err \in {"invalid", "zero"})
        /\ (~InvalidInput =>
                cres.ok /\ cres.lat.k = "fin" /\ cres.lng.k = "fin")

CommonFailed == dGot.common.err # NoError
OptionalFetches == {"intro", "images", "pet", "recs"}
OptionalIssued == { dIssued[i] : i \in 1..Len(dIssued) } \cap OptionalFetches

\* C13 as stated: when getDetailCommon fails, TourDetailData fails with that
\* same error, and no optional fetch is issued.
C13_FailsWithSameError ==
    CommonFailed => dThrown = dGot.common.err /\ OptionalIssued = {}

\* C13: when getDetailCommon fails, the error reaches the catch block of
\* TourDetailData unchanged and no optional fetch is issued; TourDetailData
\* then ends in notFound() for a not-found error and in the error view for any
\* other, and never throws the error of getDetailCommon itself.
C13_CaughtUnchanged ==
    CommonFailed =>
        /\ dCaught = dGot.common.err
        /\ OptionalIssued = {}
        /\ dpc = (IF dGot.common.err.kind = "notFound" THEN "notFound" ELSE "errorView")
        /\ dThrown # dGot.common.err

C13_Witness ==
    /\ CommonFailed
    /\ dGot.common.err.statusCode = 500
    /\ dpc = "errorView"
    /\ dIssued = <<"common">>

\* C14: once getDetailCommon has succeeded, TourDetailData never ends in its
\* catch block; it issues all four optional fetches, each result is the
\* fetch's own value or its empty value (null, [], null, []) whatever the
\* other three did, and the fields of getDetailCommon are returned.
C14_OptionalFailuresTolerated ==
    dGot.common.ok =>
        /\ dpc \notin {"errorView", "notFound"}
        /\ dCaught = NoError /\ dThrown = NoError
        /\ dpc = "content" =>
            /\ dIssued = <<"common", "intro", "images", "pet", "recs">>
            /\ dIntro = (IF dGot.intro.ok THEN dGot.intro.val ELSE "null")
            /\ dImages = (IF dGot.images.ok THEN dGot.images.val ELSE <<>>)
            /\ dPet = (IF dGot.pet.ok THEN dGot.pet.val ELSE "null")
            /\ dRecs = (IF dGot.recs.ok
                        THEN RelatedShown(dGot.recs.val, dGot.common.val.contentid)
                        ELSE <<>>)
            /\ dDetail.contentid = dGot.common.val.contentid
            /\ dDetail.contenttypeid = dGot.common.val.contenttypeid
            /\ dDetail.areacode = dGot.common.val.areacode
            /\ (~dGot.images.ok =>
                    /\ dDetail.firstimage = dGot.common.val.firstimage
                    /\ dDetail.firstimage2 = dGot.common.val.firstimage2)

C14_Witness ==
    /\ dpc = "content"
    /\ dGot.common.ok
    /\ dGot.intro.err # NoError /\ dGot.images.err # NoError
    /\ dGot.pet.err # NoError /\ dGot.recs.err # NoError
    /\ dIntro = "null" /\ dImages = <<>> /\ dPet = "null" /\ dRecs = <<>>
    /\ dDetail.firstimage = <<"http://", "c1">>

\* seq keeps the order of the entries of whole that it retains
RECURSIVE IsSubsequence(_, _)
IsSubsequence(seq, whole) ==
    IF seq = <<>> THEN TRUE
    ELSE IF whole = <<>> THEN FALSE
    ELSE IF seq[1] = whole[1] THEN IsSubsequence(Tail(seq), Tail(whole))
    ELSE IsSubsequence(seq, Tail(whole))

\* C15: the related list of the returned content has no entry with the
\* current id, has at most 6 entries, is a subsequence of the upstream list,
\* and is empty when getAreaBasedList failed; DetailRecommendations shows it
\* as it is.
C15_RelatedList ==
    dpc = "content" =>
        /\ \A i \in 1..Len(dRecs) : dRecs[i] # dDetail.contentid
        /\ Len(dRecs) <= 6
        /\ IsSubsequence(dRecs, dGot.recs.val)
        /\ (~dGot.recs.ok => dRecs = <<>>)
        /\ RelatedShown(dRecs, dDetail.contentid) = dRecs

C15_Witness ==
    /\ dpc = "content"
    /\ dGot.recs.ok
    /\ Len(dGot.recs.val) = 9
    /\ dRecs = <<"a", "b", "c", "d", "e", "f">>

(***************************************************************************)
(* StatsAggregator claims                                                  *)
(***************************************************************************)

StatsReturned == spc \in {"done", "summary"}
Queried == sIssued # <<>>
PartKey(i) == IF sKind = "region" THEN sParts[i].code ELSE sParts[i]
EntryKey(e) == IF sKind = "region" THEN e.code ELSE e.contentTypeId
EntriesOf(i) == { n \in 1..Len(sResult) : EntryKey(sResult[n]) = PartKey(i) }

\* C16: getRegionStats / getTypeStats never throw; when they return, every
\* partition query was issued and has settled, a partition whose query failed
\* has no entry, and a partition whose query gave a positive count has exactly
\* one entry, with that count, whatever the other queries did.
C16_PartitionFailureIsolated ==
    /\ sThrown = NoError
    /\ (StatsReturned /\ Queried) =>
        /\ sIssued = sParts
        /\ \A i \in 1..Len(sParts) :
            /\ sSettled[i] # PendingQuery
            /\ (~sSettled[i].ok => EntriesOf(i) = {})
            /\ (sSettled[i].ok /\ sSettled[i].val > 0 =>
                    /\ Cardinality(EntriesOf(i)) = 1
                    /\ \A n \in EntriesOf(i) : sResult[n].count = sSettled[i].val)

C16_Witness ==
    /\ spc = "done" /\ sKind = "type"
    /\ ~sSettled[1].ok /\ ~sSettled[8].ok
    /\ sSettled[2].ok /\ sSettled[2].val = 2
    /\ \E n \in 1..Len(sResult) :
        sResult[n].contentTypeId = "14" /\ sResult[n].count = 2

RECURSIVE SumPercentages(_)
SumPercentages(seq) ==
    IF seq = <<>> THEN 0 ELSE seq[1].percentage + SumPercentages(Tail(seq))

\* C17: in the result of getTypeStats every percentage (in hundredths) is the
\* hundredth nearest to count / (sum of the returned counts) * 100, the
\* percentages of a non-empty result add up to 100 within 0.1, and
\* calculatePercentage gives 0 for a total of 0.
C17_Percentages ==
    /\ \A c \in Counts : calculatePercentage(c, 0) = 0
    /\ (StatsReturned /\ sKind = "type") =>
        LET total == SumCounts(sResult) IN
        /\ \A n \in 1..Len(sResult) :
            LET diff == sResult[n].percentage * total - sResult[n].count * 10000
            IN  2 * Abs(diff) <= total
        /\ (sResult # <<>> =>
                /\ SumPercentages(sResult) >= 10000 - 10
                /\ SumPercentages(sResult) <= 10000 + 10)

C17_Witness ==
    /\ spc = "done" /\ sKind = "type"
    /\ Len(sResult) = 7
    /\ \A n \in 1..7 : sResult[n].count = 1 /\ sResult[n].percentage = 1429
    /\ SumPercentages(sResult) = 10003

\* C18: the arrays of getRegionStats / getTypeStats are in non-increasing
\* order of count, and topRegions / topTypes of getStatsSummary are their
\* first 3 entries (all of them when there are fewer).
C18_SortedAndTop3 ==
    /\ StatsReturned =>
        \A n \in 1..(Len(sResult) - 1) : sResult[n].count >= sResult[n + 1].count
    /\ spc = "summary" =>
        LET top == IF sKind = "region" THEN sSummary.topRegions ELSE sSummary.topTypes
            other == IF sKind = "region" THEN sSummary.topTypes ELSE sSummary.topRegions
        IN  /\ Len(top) = (IF Len(sResult) < 3 THEN Len(sResult) ELSE 3)
            /\ \A n \in 1..Len(top) : top[n] = sResult[n]
            /\ other = <<>>

C18_Witness ==
    /\ spc = "summary" /\ sKind = "type"
    /\ Len(sResult) = 5
    /\ sSettled[1].ok /\ sSettled[1].val = 1
    /\ sSettled[3].ok /\ sSettled[3].val = 2
    /\ Len(sSummary.topTypes) = 3
    /\ sSummary.topTypes[1].count = 2
    /\ sSummary.topTypes[3].count = 1

(***************************************************************************)
(* EntityFetchers claims                                                   *)
(***************************************************************************)

\* the required parameters of the fetcher that was called
RequiredParams ==
    IF fName = "searchKeyword" THEN {fParams.keyword}
    ELSE IF fName = "getDetailIntro" THEN {fParams.contentId, fParams.contentTypeId}
    ELSE IF fName = "getAreaBasedList" THEN {fParams.areaCode, fParams.contentTypeId}
    ELSE {fParams.contentId}
Called == fpc # "idle"

\* C19 as stated: a fetcher called with a missing or blank (empty or
\* whitespace-only) required parameter throws the required-parameter error
\* and never calls fetchApiResponse.
C19_BlankParamRejected ==
    (Called /\ \E str \in RequiredParams : Blank(str)) =>
        /\ fpc = "threw"
        /\ fThrown = RequiredParamError
        /\ fApiCalls = 0

\* C20 as stated: getDetailCommon throws the not-found error exactly when
\* fetchApiResponse resolved and normalizeItems gave zero items, and returns
\* the first item when normalizeItems gave one or more.
C20_NotFoundIffNoItems ==
    (fName = "getDetailCommon" /\ fpc \in {"returned", "threw"}) =>
        LET resolved == fApiCalls = 1 /\ fThrown \notin UpstreamErrors
            items == normalizeItems(fBody.items).val.elems
        IN  /\ (fpc = "threw" /\ fThrown = NotFoundError) <=> (resolved /\ Len(items) = 0)
            /\ (resolved /\ Len(items) >= 1) =>
                    fpc = "returned" /\ fResult = ItemResult(items[1])

\* an upstream answer that says the entity has no such data: HTTP 404, the
\* provider's no-data result code, or a message with the not-found text
NotFoundResponse(err) ==
    err.statusCode = 404 \/ err.provCode = "0003" \/ MessageSaysNotFound(err)
Settled == fpc \in {"returned", "threw"} /\ fApiCalls = 1
ZeroItems == fRejected = NoError /\ Len(normalizeItems(fBody.items).val.elems) = 0

\* C21 as stated: getDetailPetTour returns null and throws nothing whenever
\* the upstream answered not found or gave zero items.
C21_AbsenceNeverFails ==
    (fName = "getDetailPetTour" /\ Settled /\ (NotFoundResponse(fRejected) \/ ZeroItems)) =>
        /\ fpc = "returned"
        /\ fResult = ItemResult(JSNull)
        /\ fThrown = NoError

\* the URL test of the claim: non-empty, not "null" / "undefined", http(s)
HasResolvableUrl(item) ==
    LET url == OriginImgUrl(item) IN
    /\ ~Falsy(url)
    /\ url \notin {<<"null">>, <<"undefined">>}
    /\ (StartsWith(url, "http://") \/ StartsWith(url, "https://"))

\* C22 as stated: for every upstream response getDetailImage returns the
\* upstream entries that have a resolvable URL, in upstream order, and no
\* other entry.
C22_OnlyResolvableImages ==
    (fName = "getDetailImage" /\ Settled /\ fRejected = NoError) =>
        /\ fpc = "returned"
        /\ fResult = ListResult(SelectSeq(normalizeItems(fBody.items).val.elems,
                                          HasResolvableUrl))

\* q is the least integer not below a / b, for b > 0
IsCeilOf(q, a, b) == b > 0 /\ q * b >= a /\ (q - 1) * b < a
ReturnedPage == fName \in {"getAreaBasedList", "searchKeyword"} /\ fpc = "returned"

\* C23 as stated: every page returned by getAreaBasedList / searchKeyword has
\* totalPages = ceil(totalCount / numOfRows) and at most numOfRows items.
C23_PageInvariant ==
    ReturnedPage =>
        /\ IsCeilOf(fResult.page.totalPages, fResult.page.totalCount, fResult.page.numOfRows)
        /\ Len(fResult.items) <= fResult.page.numOfRows

(***************************************************************************)
(* RequestExecutor: attempts                                               *)
(***************************************************************************)

AttemptSucceeded(e) == e.ev = "json" /\ ValidateEnvelope(e.data).ok
AttemptsMade == Len(events) + (IF pc \in {"fetching", "reading"} THEN 1 ELSE 0)

\* C24: whatever the attempts end with, fetchApiResponse makes at most 4
\* attempts (3 delays); a successful attempt is the last one and its envelope
\* is what is returned, so the envelope returned is that of the first
\* successful attempt; a failed attempt is followed by a delay or another
\* attempt only when its error is retryable, otherwise the call has failed.
C24_AttemptsBounded ==
    /\ AttemptsMade <= 4
    /\ Len(waited) <= 3
    /\ \A i \in 1..Len(events) :
        AttemptSucceeded(events[i]) =>
            i = Len(events) /\ pc = "returned" /\ result = events[i].data
    /\ (pc = "returned" => events # <<>> /\ AttemptSucceeded(LastEvent))
    /\ (events # <<>> /\ ~AttemptSucceeded(LastEvent)) =>
            IF isRetryableError(lastError)
            THEN pc = "failed" => Len(events) = 4
            ELSE pc = "failed" /\ AttemptsMade = Len(events)

C24_Witness ==
    /\ pc = "returned"
    /\ Len(events) = 4
    /\ IsHttp(events[1], 500)
    /\ IsHttp(events[2], 429)
    /\ IsHttp(events[3], 503)
    /\ result = events[4].data

(***************************************************************************)
(* DetailAggregator: concurrency                                           *)
(***************************************************************************)

\* C25 as stated: once getDetailCommon has succeeded the four optional
\* fetches are issued together, none waiting for another to settle, so
\* whenever one of them is pending all four have been issued.
C25_OptionalIssuedTogether ==
    (dGot.common.ok /\ dpc \in {"intro", "images", "pet", "recs"}) =>
        OptionalIssued = OptionalFetches

(***************************************************************************)
(* ResponseNormalizer: wrappers                                            *)
(***************************************************************************)

IsWrapper(v) == v.k = "object" /\ v.item # <<>>

\* C26 as stated: for a wrapper {item: v} normalizeItems returns exactly what
\* normalizeItems(v) returns, whatever v is.
C26_WrapperIsRecursive ==
    (npc # "start" /\ IsWrapper(nIn)) => nOut = normalizeItems(nIn.item[1])

(***************************************************************************)
(* DetailAggregator: image backfill                                        *)
(***************************************************************************)

ImagesSettled == dpc \in {"pet", "recs", "content"}
ValidGallery == SelectSeq(dGot.images.val, isValidImageUrl)

\* C27: after a successful getDetailImage an invalid firstimage is the first
\* valid gallery image and an invalid firstimage2 the second valid gallery
\* image, when the gallery has one; a valid firstimage / firstimage2 of
\* getDetailCommon is kept, and after a failed getDetailImage both are as
\* getDetailCommon gave them.
C27_ImageBackfill ==
    ImagesSettled =>
        LET common == dGot.common.val IN
        /\ dDetail.firstimage =
             (IF dGot.images.ok /\ ~isValidImageUrl(common.firstimage)
                 /\ Len(ValidGallery) >= 1
              THEN ValidGallery[1] ELSE common.firstimage)
        /\ dDetail.firstimage2 =
             (IF dGot.images.ok /\ ~isValidImageUrl(common.firstimage2)
                 /\ Len(ValidGallery) >= 2
              THEN ValidGallery[2] ELSE common.firstimage2)

C27_Witness ==
    /\ dpc = "content"
    /\ dGot.common.val.firstimage = <<"null">>
    /\ dGot.common.val.firstimage2 = NullUrl
    /\ dGot.images.ok
    /\ dGot.images.val = << <<"https://", "g2">>, <<"http://", "g1">> >>
    /\ dDetail.firstimage = <<"https://", "g2">>
    /\ dDetail.firstimage2 = <<"http://", "g1">>

(***************************************************************************)
(* StatsAggregator: cache                                                  *)
(***************************************************************************)

LastCall == sCalls[Len(sCalls)]
CalledAgain == Len(sCalls) > 1 /\ StatsReturned

\* C28 as stated: every call of getRegionStats / getTypeStats runs the
\* aggregator afresh; none is answered with the result of an earlier call.
C28_EveryCallFresh ==
    CalledAgain => ~LastCall.hit

\* C28 amended: getRegionStats / getTypeStats keep the result of their first
\* call in unstable_cache; a later call while the entry is held is answered
\* with that entry and issues no getAreaCode / getAreaBasedList call.
C28_LaterCallCached ==
    CalledAgain =>
        /\ LastCall.hit
        /\ sCache[sKind].hit
        /\ sResult = sCache[sKind].val
        /\ sApiCalls = sCache[sKind].calls

C28_Witness ==
    /\ spc = "done" /\ sKind = "type"
    /\ Len(sCalls) = 2
    /\ sCalls[2].hit
    /\ sApiCalls = 8
    /\ Len(sResult) = 3

(***************************************************************************)
(* CoordinateResolver: the diagnostic counter                              *)
(***************************************************************************)

IsConvertCall == cpc = "ready" /\ cpc' = "called"
CounterStep ==
    /\ IsConvertCall =>
          /\ coordConvertCount' = coordConvertCount + 1
          /\ cres' = convertKATECToWGS84(cx, cy)
    /\ ~IsConvertCall => coordConvertCount' = coordConvertCount

\* C29: a call of convertKATECToWGS84 adds exactly one to the counter, whether
\* it returns or throws, no other step changes the counter, and what the call
\* returns or throws is fixed by its two inputs alone, whatever the counter's
\* value and whatever calls came before.
C29_CounterOncePerCall == [][CounterStep]_vars

C29_Witness ==
    /\ cpc = "called"
    /\ coordConvertCount = 2
    /\ cx = <<"a", "b", "c">>
    /\ ~cres.ok
    /\ cres = convertKATECToWGS84(cx, cy)

(***************************************************************************)
(* StatsAggregator: empty partitions                                       *)
(***************************************************************************)

Succeeded == { i \in 1..Len(sParts) : sSettled[i] # PendingQuery /\ sSettled[i].ok }
EmptyParts == { i \in Succeeded : sSettled[i].val = 0 }

\* C30: every entry getRegionStats / getTypeStats return has count > 0; a
\* partition whose query succeeded with a total count of 0 has no entry, as a
\* partition whose query failed has none, so the entries are those of the
\* successful partitions less the empty ones.
C30_NoEmptyEntries ==
    StatsReturned =>
        /\ \A n \in 1..Len(sResult) : sResult[n].count > 0
        /\ Queried =>
            /\ \A i \in EmptyParts : EntriesOf(i) = {}
            /\ Len(sResult) = Cardinality(Succeeded \ EmptyParts)

C30_Witness ==
    /\ spc = "done" /\ sKind = "type"
    /\ Cardinality(Succeeded) = Len(sParts)
    /\ Cardinality(EmptyParts) = 1
    /\ Len(sResult) = Len(sParts) - 1

====
